---- MODULE Spec2Model ----
(***************************************************************************)
(* Model of pi_rt_file's SafeFile (src/src/lib.rs): the process-wide table *)
(* of weak handle references (OPEN_FILE_MAP), SafeFile::open, and the      *)
(* read / write paths of a handle under its two lock strategies            *)
(* (LockType::Rw for ordinary modes, LockType::Lock for TruncateWrite).    *)
(*                                                                         *)
(* A task is one caller running on the multi-threaded file runtime.  A     *)
(* step of a task is the code between two await points: the synchronous    *)
(* code under the table mutex (no await is inside either critical section  *)
(* of open), the code under the buffer's spin lock, or the completion of a *)
(* device call.  The statements `lock.lock().await;`, `lock.read().await;` *)
(* and `lock.write().await;` create a guard that is a temporary of an      *)
(* expression statement: Rust drops it at the end of that statement, so    *)
(* the guard is released before the next statement runs.  The model        *)
(* follows the code: acquiring the guard is one step, the drop at the `;`  *)
(* together with the synchronous code up to the next await is the next     *)
(* step of the same task.                                                  *)
(*                                                                         *)
(* The device (pi_async_file's AsyncFile) is outside this crate: open      *)
(* truncates the file in TruncateWrite mode, read and write are positional *)
(* and each may fail.  A device call takes effect at the step in which it  *)
(* completes.                                                              *)
(***************************************************************************)
EXTENDS Integers, Sequences, FiniteSets, TLC

\* ---- bounds of the model ------------------------------------------------
\* operations (open, read, write) started in a run, and the largest offset
MaxOps == 4
MaxPos == 1

\* two concurrent callers on the runtime's worker threads, one path
Tasks == {1, 2}
Paths == {1}
\* every open constructs at most one handle
Handles == 1..MaxOps
\* Option::None: no handle, no table entry, no guard holder
None == 0

\* AsyncFileOptions: the one mode that selects LockType::Lock, and another one
Modes == {"ReadWrite", "TruncateWrite"}
\* payloads a caller passes to write (the empty one included), lengths a caller
\* passes to read
Bufs == {<<>>, <<1, 2>>, <<3>>}
Lens == {0, 2}
Positions == 0..MaxPos

VARIABLES
    tab,        \* OPEN_FILE_MAP: path -> handle id of the stored Weak, or None
    nextId,     \* identity of the next Arc<InnerSafeFile> to be allocated
    hpath,      \* handle -> path its AsyncFile was opened on
    lockType,   \* handle -> "Rw" | "Lock"            (InnerSafeFile.lock)
    buff,       \* handle -> [data, ver]              (InnerSafeFile.buff)
    lockW,      \* handle -> task holding Mutex / RwLock write guard, or None
    lockR,      \* handle -> set of tasks holding an RwLock read guard
    dev,        \* path -> bytes of the file on the device
    pc,         \* task -> position in the operation it runs
    held,       \* task -> the SafeFile (strong reference) the caller owns
    loc,        \* task -> locals of the running operation
    ret,        \* the return that happened last: task, Ok/Err and value
    nops,       \* operations started so far
    tmutex,     \* task holding the guard of OPEN_FILE_MAP's Mutex, or None
    hist        \* handle -> history of the handle (observation only)

vars == <<tab, nextId, hpath, lockType, buff, lockW, lockR, dev, pc, held,
          loc, ret, nops, tmutex, hist>>

\* ---- pure helpers -------------------------------------------------------
\* locals of a running operation: its arguments, the Arc open() constructed,
\* the buffer snapshot, and observations: whether no other write call on
\* the handle overlapped this one, whether a read started right after a
\* successful write (no write running, buffer clean and holding its data),
\* and for a write on a LockType::Lock handle the payloads accepted (seen) and
\* the payloads written to the device with success (done) since the call
\* stored its own payload or, once it has copied the buffer, since that copy,
\* and for a read on such a handle whether the buffer held the non-empty
\* payload of a write when the read got the handle lock
NoLoc == [path |-> None, mode |-> "", pos |-> 0, len |-> 0, file |-> None,
          data |-> <<>>, ver |-> 0, alone |-> TRUE, afterw |-> FALSE,
          seen |-> {}, done |-> {}, atlock |-> FALSE]
\* what an operation returned to which task: Ok/Err, the bytes of a read, the
\* count of a write, the handle of an open and the mode that open was asked for
NoRes == [t |-> None, op |-> "none", ok |-> TRUE, val |-> <<>>, n |-> 0,
          h |-> None, mode |-> ""]
\* history of a handle: mode it was constructed with, whether its Weak was
\* stored in the table, accepted (buffered)
\* writes and the data of the last one, write calls returned, device writes
\* issued, the payload of the device write that completed last, whether a
\* device write failed, whether a read ran, whether the second write was
\* buffered before the first one returned
NoHist == [ctor |-> "", reg |-> FALSE, acc |-> 0, last |-> <<>>, wdone |-> 0,
           devw |-> 0, devlast |-> <<>>, wfail |-> FALSE, reads |-> FALSE,
           coal |-> FALSE]

Max(a, b) == IF a > b THEN a ELSE b
Min(a, b) == IF a < b THEN a ELSE b

\* strong references to handle h: SafeFile values owned by callers, and the
\* Arc a running open has constructed but not yet returned or dropped
Strong(h) == {t \in Tasks : held[t] = h \/ loc[t].file = h}

\* Weak::upgrade: Some exactly while a strong reference exists
UpgradeAlways(w) == w
Upgrade(w) == IF w # None /\ Strong(w) # {} THEN w ELSE None

\* `OPEN_FILE_MAP.0.lock().await` gives the table's guard to task t; the guard
\* of the first lookup is dropped at the end of its block (line 106), the one
\* of the second lookup when open returns
TabLock(t) == t
TabUnlockLate(t) == t
TabUnlock(t) == None

\* `self.0.buff.lock()`: the SpinLock of a buffer is taken by task t; the
\* guard is dropped at the end of the block or match arm that took it, which
\* in read and write is always before the next await
BuffLock(b, t) == [b EXCEPT !.guard = t]
BuffUnlockLate(b) == b
BuffUnlock(b) == [b EXCEPT !.guard = None]

\* the lock strategy open() builds for a mode
LockOfRwOnly(mode) == "Rw"
LockOf(mode) == IF mode = "TruncateWrite" THEN "Lock" ELSE "Rw"

\* the device's positional write: data replaces the bytes at [pos, pos+len),
\* a gap before pos is zero-filled
DevWrite(content, pos, data) ==
    [i \in 1..Max(Len(content), pos + Len(data)) |->
        IF i > pos /\ i <= pos + Len(data) THEN data[i - pos]
        ELSE IF i <= Len(content) THEN content[i] ELSE 0]

\* the device's positional read: at most len bytes from pos, clipped to the file
DevRead(content, pos, len) == SubSeq(content, pos + 1, Min(pos + len, Len(content)))

\* the device's open: TruncateWrite empties the file
DevOpen(content, mode) == IF mode = "TruncateWrite" THEN <<>> ELSE content

\* the free functions that forward to pi_async_file (lines 216-278)
Primitives == {"open", "create_dir", "remove_file", "remove_dir", "rename",
               "copy_file", "remove_dir_all"}
\* the AsyncFileOptions a primitive is called with: only open takes them
OptionsOf(f) == IF f = "open" THEN Modes ELSE {""}
\* what a successful primitive leaves of a file's bytes: a raw open empties
\* the file in TruncateWrite mode, remove_file leaves no bytes, the directory
\* primitives and a rename or copy of a path onto itself leave them alone
PassEffect(f, content, mode) ==
    CASE f = "open" -> DevOpen(content, mode)
      [] f = "remove_file" -> <<>>
      [] OTHER -> content

\* what read() returns when the buffer holds data (line 146): Vec::from([])
CachedRead(data, pos, len) == <<>>

\* tasks inside a device read or write call of handle h
InDevice(h) == {t \in Tasks : held[t] = h /\
                  pc[t] \in {"rd_dev", "wr_dev", "rwrd_dev", "rwwr_dev"}}
\* tasks running a non-empty write call on a LockType::Lock handle h
Writing(h) == {t \in Tasks : held[t] = h /\
                 pc[t] \in {"wr_wait", "wr_held", "wr_dev"}}

\* the offset and payload of the device write task t is inside (line 191)
DevWriteCall(t) == [pos |-> loc[t].pos, data |-> loc[t].data]

ReadOk(v) == [NoRes EXCEPT !.op = "read", !.val = v]
ReadErr == [NoRes EXCEPT !.op = "read", !.ok = FALSE]
WriteOk(n) == [NoRes EXCEPT !.op = "write", !.n = n]
WriteErr == [NoRes EXCEPT !.op = "write", !.ok = FALSE]
OpenOk(h, m) == [NoRes EXCEPT !.op = "open", !.h = h, !.mode = m]
OpenErr == [NoRes EXCEPT !.op = "open", !.ok = FALSE]

Idle(t) == pc[t] = "idle"
Return(t, r) ==
    /\ pc' = [pc EXCEPT ![t] = "idle"]
    /\ loc' = [loc EXCEPT ![t] = NoLoc]
    /\ ret' = [r EXCEPT !.t = t]

\* ---- initial state ------------------------------------------------------
Init ==
    /\ tab = [p \in Paths |-> None]
    /\ nextId = 1
    /\ hpath = [h \in Handles |-> None]
    /\ lockType = [h \in Handles |-> "none"]
    /\ buff = [h \in Handles |-> [data |-> <<>>, ver |-> 0, guard |-> None]]
    /\ lockW = [h \in Handles |-> None]
    /\ lockR = [h \in Handles |-> {}]
    /\ dev = [p \in Paths |-> <<>>]
    /\ pc = [t \in Tasks |-> "idle"]
    /\ held = [t \in Tasks |-> None]
    /\ loc = [t \in Tasks |-> NoLoc]
    /\ ret = NoRes
    /\ nops = 0
    /\ tmutex = None
    /\ hist = [h \in Handles |-> NoHist]

\* ---- SafeFile::open -----------------------------------------------------
\* lines 96-106: the first lookup under the table mutex; a live entry is
\* returned, anything else leads to the device open
OpenLookupSameMode(t, p, m) ==
    /\ Idle(t) /\ held[t] = None /\ nops < MaxOps
    /\ tmutex = None
    /\ tmutex' = TabUnlock(TabLock(t))
    /\ nops' = nops + 1
    /\ LET rr == Upgrade(tab[p]) IN
         IF rr # None /\ lockType[rr] = LockOf(m)
         THEN /\ held' = [held EXCEPT ![t] = rr]
              /\ ret' = [OpenOk(rr, m) EXCEPT !.t = t]
              /\ UNCHANGED <<pc, loc>>
         ELSE /\ pc' = [pc EXCEPT ![t] = "open_dev"]
              /\ loc' = [loc EXCEPT ![t] = [NoLoc EXCEPT !.path = p, !.mode = m]]
              /\ UNCHANGED <<held, ret>>
    /\ UNCHANGED <<tab, nextId, hpath, lockType, buff, lockW, lockR, dev, hist>>
OpenLookup(t, p, m) ==
    /\ Idle(t) /\ held[t] = None /\ nops < MaxOps
    /\ tmutex = None
    /\ tmutex' = TabUnlock(TabLock(t))
    /\ nops' = nops + 1
    /\ LET rr == Upgrade(tab[p]) IN
         IF rr # None
         THEN /\ held' = [held EXCEPT ![t] = rr]
              /\ ret' = [OpenOk(rr, m) EXCEPT !.t = t]
              /\ UNCHANGED <<pc, loc>>
         ELSE /\ pc' = [pc EXCEPT ![t] = "open_dev"]
              /\ loc' = [loc EXCEPT ![t] = [NoLoc EXCEPT !.path = p, !.mode = m]]
              /\ UNCHANGED <<held, ret>>
    /\ UNCHANGED <<tab, nextId, hpath, lockType, buff, lockW, lockR, dev, hist>>

\* lines 107-112: the lock is built from the mode, the device open succeeds
\* and the handle is allocated with an empty buffer at version 0
OpenDeviceOk(t) ==
    /\ pc[t] = "open_dev"
    /\ LET h == nextId
           p == loc[t].path
           m == loc[t].mode IN
         /\ nextId' = nextId + 1
         /\ hpath' = [hpath EXCEPT ![h] = p]
         /\ lockType' = [lockType EXCEPT ![h] = LockOf(m)]
         /\ buff' = [buff EXCEPT ![h] = [data |-> <<>>, ver |-> 0,
                                          guard |-> None]]
         /\ dev' = [dev EXCEPT ![p] = DevOpen(dev[p], m)]
         /\ hist' = [hist EXCEPT ![h] = [NoHist EXCEPT !.ctor = m]]
         /\ loc' = [loc EXCEPT ![t].file = h]
    /\ pc' = [pc EXCEPT ![t] = "open_reg"]
    /\ UNCHANGED <<tab, lockW, lockR, held, ret, nops>>
    /\ UNCHANGED tmutex

\* line 113: the device open fails and open returns the error
OpenDeviceFailRegisters(t) ==
    /\ pc[t] = "open_dev"
    /\ tab' = [tab EXCEPT ![loc[t].path] = nextId]
    /\ Return(t, OpenErr)
    /\ UNCHANGED <<nextId, hpath, lockType, buff, lockW, lockR, dev, held,
                   nops, hist>>
    /\ UNCHANGED tmutex
OpenDeviceFail(t) ==
    /\ pc[t] = "open_dev"
    /\ Return(t, OpenErr)
    /\ UNCHANGED <<tab, nextId, hpath, lockType, buff, lockW, lockR, dev, held,
                   nops, hist>>
    /\ UNCHANGED tmutex

\* lines 115-128: the second lookup under the table mutex; a live entry wins
\* and the new handle is dropped, otherwise the new handle's Weak is stored
OpenRegisterNoRecheck(t) ==
    /\ pc[t] = "open_reg"
    /\ tmutex = None
    /\ tmutex' = TabUnlock(TabLock(t))
    /\ LET file == loc[t].file
           p == loc[t].path IN
         /\ tab' = [tab EXCEPT ![p] = file]
         /\ held' = [held EXCEPT ![t] = file]
         /\ hist' = [hist EXCEPT ![file].reg = TRUE]
         /\ Return(t, OpenOk(file, loc[t].mode))
    /\ UNCHANGED <<nextId, hpath, lockType, buff, lockW, lockR, dev, nops>>
OpenRegister(t) ==
    /\ pc[t] = "open_reg"
    /\ tmutex = None
    /\ tmutex' = TabUnlock(TabLock(t))
    /\ LET file == loc[t].file
           p == loc[t].path
           rr == Upgrade(tab[p]) IN
         IF rr # None
         THEN /\ held' = [held EXCEPT ![t] = rr]
              /\ Return(t, OpenOk(rr, loc[t].mode))
              /\ UNCHANGED <<tab, hist>>
         ELSE /\ tab' = [tab EXCEPT ![p] = file]
              /\ held' = [held EXCEPT ![t] = file]
              /\ hist' = [hist EXCEPT ![file].reg = TRUE]
              /\ Return(t, OpenOk(file, loc[t].mode))
    /\ UNCHANGED <<nextId, hpath, lockType, buff, lockW, lockR, dev, nops>>

\* ---- SafeFile::read -----------------------------------------------------
\* lines 132-135: a read of zero bytes returns an empty vector at once
ReadZeroFallsThrough(t, pos) ==
    /\ Idle(t) /\ held[t] # None /\ nops < MaxOps
    /\ nops' = nops + 1
    /\ loc' = [loc EXCEPT ![t] = [NoLoc EXCEPT !.pos = pos]]
    /\ pc' = [pc EXCEPT ![t] = IF lockType[held[t]] = "Lock" THEN "rd_wait"
                                ELSE "rwrd_wait"]
    /\ UNCHANGED <<tab, nextId, hpath, lockType, buff, lockW, lockR, dev, held,
                   ret, hist>>
    /\ UNCHANGED tmutex
ReadZero(t, pos) ==
    /\ Idle(t) /\ held[t] # None /\ nops < MaxOps
    /\ nops' = nops + 1
    /\ ret' = [ReadOk(<<>>) EXCEPT !.t = t]
    /\ UNCHANGED <<tab, nextId, hpath, lockType, buff, lockW, lockR, dev, pc,
                   held, loc, hist>>
    /\ UNCHANGED tmutex

\* lines 139-142 (LockType::Lock): the payload is copied out of the buffer
\* under the buffer guard, before the handle lock is awaited
RdSnap(t, pos, len) ==
    /\ Idle(t) /\ held[t] # None /\ nops < MaxOps /\ len > 0
    /\ lockType[held[t]] = "Lock"
    /\ nops' = nops + 1
    /\ LET h == held[t] IN
         /\ buff[h].guard = None
         /\ buff' = [buff EXCEPT ![h] = BuffUnlock(BuffLock(@, t))]
         /\ loc' = [loc EXCEPT ![t] = [NoLoc EXCEPT !.pos = pos, !.len = len,
                       !.data = buff[h].data,
                       !.afterw = /\ hist[h].acc > 0
                                  /\ hist[h].wdone = hist[h].acc
                                  /\ ~hist[h].wfail
                                  /\ buff[h].ver = 0
                                  /\ buff[h].data = hist[h].last]]
         /\ hist' = [hist EXCEPT ![h].reads = TRUE]
    /\ pc' = [pc EXCEPT ![t] = "rd_wait"]
    /\ UNCHANGED <<tab, nextId, hpath, lockType, lockW, lockR, dev, held, ret>>
    /\ UNCHANGED tmutex

\* line 143: `lock.lock().await` gives the guard once the mutex is free
RdAcquire(t) ==
    /\ pc[t] = "rd_wait"
    /\ lockW[held[t]] = None
    /\ lockW' = [lockW EXCEPT ![held[t]] = t]
    /\ loc' = [loc EXCEPT ![t].atlock = /\ hist[held[t]].acc > 0
                                        /\ Len(buff[held[t]].data) > 0]
    /\ pc' = [pc EXCEPT ![t] = "rd_held"]
    /\ UNCHANGED <<tab, nextId, hpath, lockType, buff, lockR, dev, held, ret,
                   nops, hist>>
    /\ UNCHANGED tmutex

\* line 143, the `;`: the guard is dropped.  Lines 144-148: a non-empty
\* snapshot is answered without the device (line 146), an empty one starts
\* the device read
RdRelease(t) ==
    /\ pc[t] = "rd_held"
    /\ lockW' = [lockW EXCEPT ![held[t]] = None]
    /\ IF Len(loc[t].data) > 0
       THEN Return(t, ReadOk(CachedRead(loc[t].data, loc[t].pos, loc[t].len)))
       ELSE /\ pc' = [pc EXCEPT ![t] = "rd_dev"]
            /\ UNCHANGED <<loc, ret>>
    /\ UNCHANGED <<tab, nextId, hpath, lockType, buff, lockR, dev, held, nops,
                   hist>>
    /\ UNCHANGED tmutex

\* lines 148-154: the device read returns bytes; they become the buffer's
\* payload (the version is not looked at) and are returned
RdDevOk(t) ==
    /\ pc[t] = "rd_dev"
    /\ LET h == held[t]
           r == DevRead(dev[hpath[h]], loc[t].pos, loc[t].len) IN
         /\ buff[h].guard = None
         /\ buff' = [buff EXCEPT ![h] =
                        BuffUnlock([BuffLock(@, t) EXCEPT !.data = r])]
         /\ Return(t, ReadOk(r))
    /\ UNCHANGED <<tab, nextId, hpath, lockType, lockW, lockR, dev, held, nops,
                   hist>>
    /\ UNCHANGED tmutex

\* line 155: the device read fails and the error is returned
RdDevFail(t) ==
    /\ pc[t] = "rd_dev"
    /\ Return(t, ReadErr)
    /\ UNCHANGED <<tab, nextId, hpath, lockType, buff, lockW, lockR, dev, held,
                   nops, hist>>
    /\ UNCHANGED tmutex

\* lines 159-160 (LockType::Rw): a read of len > 0 reaches `lock.read().await`
RwRdCall(t, pos, len) ==
    /\ Idle(t) /\ held[t] # None /\ nops < MaxOps /\ len > 0
    /\ lockType[held[t]] = "Rw"
    /\ nops' = nops + 1
    /\ loc' = [loc EXCEPT ![t] = [NoLoc EXCEPT !.pos = pos, !.len = len]]
    /\ pc' = [pc EXCEPT ![t] = "rwrd_wait"]
    /\ UNCHANGED <<tab, nextId, hpath, lockType, buff, lockW, lockR, dev, held,
                   ret, hist>>
    /\ UNCHANGED tmutex

\* line 160: `lock.read().await` gives a read guard while no write guard
\* exists
RwRdAcquire(t) ==
    /\ pc[t] = "rwrd_wait"
    /\ lockW[held[t]] = None
    /\ lockR' = [lockR EXCEPT ![held[t]] = @ \cup {t}]
    /\ pc' = [pc EXCEPT ![t] = "rwrd_held"]
    /\ UNCHANGED <<tab, nextId, hpath, lockType, buff, lockW, dev, held, loc,
                   ret, nops, hist>>
    /\ UNCHANGED tmutex

\* line 160, the `;`: the read guard is dropped; line 161: the device read
\* starts
RwRdRelease(t) ==
    /\ pc[t] = "rwrd_held"
    /\ lockR' = [lockR EXCEPT ![held[t]] = @ \ {t}]
    /\ pc' = [pc EXCEPT ![t] = "rwrd_dev"]
    /\ UNCHANGED <<tab, nextId, hpath, lockType, buff, lockW, dev, held, loc,
                   ret, nops, hist>>
    /\ UNCHANGED tmutex

\* line 161: the device read returns bytes or an error
RwRdDevOk(t) ==
    /\ pc[t] = "rwrd_dev"
    /\ Return(t, ReadOk(DevRead(dev[hpath[held[t]]], loc[t].pos, loc[t].len)))
    /\ UNCHANGED <<tab, nextId, hpath, lockType, buff, lockW, lockR, dev, held,
                   nops, hist>>
    /\ UNCHANGED tmutex
RwRdDevFail(t) ==
    /\ pc[t] = "rwrd_dev"
    /\ Return(t, ReadErr)
    /\ UNCHANGED <<tab, nextId, hpath, lockType, buff, lockW, lockR, dev, held,
                   nops, hist>>
    /\ UNCHANGED tmutex

\* ---- SafeFile::write ----------------------------------------------------
\* lines 168-171: a write of an empty buffer returns Ok(0) at once
WriteZero(t, pos) ==
    /\ Idle(t) /\ held[t] # None /\ nops < MaxOps
    /\ nops' = nops + 1
    /\ ret' = [WriteOk(0) EXCEPT !.t = t]
    /\ UNCHANGED <<tab, nextId, hpath, lockType, buff, lockW, lockR, dev, pc,
                   held, loc, hist>>
    /\ UNCHANGED tmutex

\* lines 175-180 (LockType::Lock): under the buffer guard the payload is
\* replaced by buf and the version is incremented
WrStore(t, pos, buf) ==
    /\ Idle(t) /\ held[t] # None /\ nops < MaxOps /\ Len(buf) > 0
    /\ lockType[held[t]] = "Lock"
    /\ nops' = nops + 1
    /\ LET h == held[t] IN
         /\ buff[h].guard = None
         /\ buff' = [buff EXCEPT ![h] =
                        BuffUnlock([BuffLock(@, t) EXCEPT !.data = buf,
                                                          !.ver = @ + 1])]
         /\ hist' = [hist EXCEPT ![h].acc = @ + 1, ![h].last = buf,
                       ![h].coal = IF hist[h].acc = 1
                                   THEN hist[h].wdone = 0 ELSE @]
         /\ loc' = [u \in Tasks |->
                      IF u = t
                      THEN [NoLoc EXCEPT !.pos = pos, !.len = Len(buf),
                                         !.alone = Writing(h) = {},
                                         !.seen = {buf}]
                      ELSE IF u \in Writing(h)
                           THEN [loc[u] EXCEPT !.alone = FALSE,
                                               !.seen = @ \cup {buf}]
                           ELSE loc[u]]
    /\ pc' = [pc EXCEPT ![t] = "wr_wait"]
    /\ UNCHANGED <<tab, nextId, hpath, lockType, lockW, lockR, dev, held, ret>>
    /\ UNCHANGED tmutex

\* line 181: `lock.lock().await` gives the guard once the mutex is free
WrAcquire(t) ==
    /\ pc[t] = "wr_wait"
    /\ lockW[held[t]] = None
    /\ lockW' = [lockW EXCEPT ![held[t]] = t]
    /\ pc' = [pc EXCEPT ![t] = "wr_held"]
    /\ UNCHANGED <<tab, nextId, hpath, lockType, buff, lockR, dev, held, loc,
                   ret, nops, hist>>
    /\ UNCHANGED tmutex

\* line 181, the `;`: the guard is dropped.  Lines 182-191: payload and
\* version are copied under the buffer guard; version 0 returns Ok(len)
\* without the device, any other version starts the device write of the
\* copied payload
WrRelease(t) ==
    /\ pc[t] = "wr_held"
    /\ lockW' = [lockW EXCEPT ![held[t]] = None]
    /\ buff[held[t]].guard = None
    /\ buff' = [buff EXCEPT ![held[t]] = BuffUnlock(BuffLock(@, t))]
    /\ LET h == held[t] IN
         IF buff[h].ver = 0
         THEN /\ Return(t, WriteOk(Len(buff[h].data)))
              /\ hist' = [hist EXCEPT ![h].wdone = @ + 1]
         ELSE /\ loc' = [loc EXCEPT ![t].data = buff[h].data,
                                    ![t].ver = buff[h].ver,
                                    ![t].seen = {}, ![t].done = {}]
              /\ pc' = [pc EXCEPT ![t] = "wr_dev"]
              /\ hist' = [hist EXCEPT ![h].devw = @ + 1]
              /\ UNCHANGED ret
    /\ UNCHANGED <<tab, nextId, hpath, lockType, lockR, dev, held, nops>>
    /\ UNCHANGED tmutex

\* lines 191-200: the device write succeeds; the version is reset to 0 when
\* it still equals the copied one
WrDevOk(t) ==
    /\ pc[t] = "wr_dev"
    /\ LET h == held[t] IN
         /\ dev' = [dev EXCEPT ![hpath[h]] =
                       DevWrite(@, DevWriteCall(t).pos, DevWriteCall(t).data)]
         /\ buff[h].guard = None
         /\ buff' = [buff EXCEPT ![h] =
                        BuffUnlock([BuffLock(@, t) EXCEPT
                                      !.ver = IF @ = loc[t].ver THEN 0 ELSE @])]
         /\ hist' = [hist EXCEPT ![h].wdone = @ + 1, ![h].devlast = loc[t].data]
         /\ pc' = [pc EXCEPT ![t] = "idle"]
         /\ ret' = [WriteOk(Len(loc[t].data)) EXCEPT !.t = t]
         /\ loc' = [u \in Tasks |->
                      IF u = t THEN NoLoc
                      ELSE IF u \in Writing(h)
                           THEN [loc[u] EXCEPT !.done = @ \cup {loc[t].data}]
                           ELSE loc[u]]
    /\ UNCHANGED <<tab, nextId, hpath, lockType, lockW, lockR, held, nops>>
    /\ UNCHANGED tmutex

\* line 201: the device write fails; the error is returned, the buffer is
\* not touched
WrDevFailClears(t) ==
    /\ pc[t] = "wr_dev"
    /\ buff' = [buff EXCEPT ![held[t]].ver = 0]
    /\ hist' = [hist EXCEPT ![held[t]].wdone = @ + 1, ![held[t]].wfail = TRUE]
    /\ Return(t, WriteErr)
    /\ UNCHANGED <<tab, nextId, hpath, lockType, lockW, lockR, dev, held, nops>>
    /\ UNCHANGED tmutex
WrDevFail(t) ==
    /\ pc[t] = "wr_dev"
    /\ hist' = [hist EXCEPT ![held[t]].wdone = @ + 1, ![held[t]].wfail = TRUE]
    /\ Return(t, WriteErr)
    /\ UNCHANGED <<tab, nextId, hpath, lockType, buff, lockW, lockR, dev, held,
                   nops>>
    /\ UNCHANGED tmutex

\* lines 205-206 (LockType::Rw): a non-empty write reaches
\* `lock.write().await`
RwWrCall(t, pos, buf) ==
    /\ Idle(t) /\ held[t] # None /\ nops < MaxOps /\ Len(buf) > 0
    /\ lockType[held[t]] = "Rw"
    /\ nops' = nops + 1
    /\ loc' = [loc EXCEPT ![t] = [NoLoc EXCEPT !.pos = pos, !.len = Len(buf),
                                               !.data = buf]]
    /\ pc' = [pc EXCEPT ![t] = "rwwr_wait"]
    /\ UNCHANGED <<tab, nextId, hpath, lockType, buff, lockW, lockR, dev, held,
                   ret, hist>>
    /\ UNCHANGED tmutex

\* line 206: `lock.write().await` gives the write guard while no other guard
\* exists
RwWrAcquire(t) ==
    /\ pc[t] = "rwwr_wait"
    /\ lockW[held[t]] = None /\ lockR[held[t]] = {}
    /\ lockW' = [lockW EXCEPT ![held[t]] = t]
    /\ pc' = [pc EXCEPT ![t] = "rwwr_held"]
    /\ UNCHANGED <<tab, nextId, hpath, lockType, buff, lockR, dev, held, loc,
                   ret, nops, hist>>
    /\ UNCHANGED tmutex

\* line 206, the `;`: the write guard is dropped; line 207: the device write
\* starts
RwWrRelease(t) ==
    /\ pc[t] = "rwwr_held"
    /\ lockW' = [lockW EXCEPT ![held[t]] = None]
    /\ pc' = [pc EXCEPT ![t] = "rwwr_dev"]
    /\ UNCHANGED <<tab, nextId, hpath, lockType, buff, lockR, dev, held, loc,
                   ret, nops, hist>>
    /\ UNCHANGED tmutex

\* line 207: the device write at (pos, buf) succeeds or fails
RwWrDevOk(t) ==
    /\ pc[t] = "rwwr_dev"
    /\ dev' = [dev EXCEPT ![hpath[held[t]]] = DevWrite(@, loc[t].pos, loc[t].data)]
    /\ Return(t, WriteOk(Len(loc[t].data)))
    /\ UNCHANGED <<tab, nextId, hpath, lockType, buff, lockW, lockR, held, nops,
                   hist>>
    /\ UNCHANGED tmutex
RwWrDevFail(t) ==
    /\ pc[t] = "rwwr_dev"
    /\ Return(t, WriteErr)
    /\ UNCHANGED <<tab, nextId, hpath, lockType, buff, lockW, lockR, dev, held,
                   nops, hist>>
    /\ UNCHANGED tmutex

\* ---- free functions ------------------------------------------------------
\* lines 216-278: open, create_dir, remove_file, remove_dir, rename, copy_file
\* and remove_dir_all hand their arguments to pi_async_file and return its
\* result; none of them names OPEN_FILE_MAP or a SafeFile
Passthrough(t, f, p, m, ok) ==
    /\ Idle(t) /\ nops < MaxOps
    /\ nops' = nops + 1
    /\ dev' = IF ok THEN [dev EXCEPT ![p] = PassEffect(f, @, m)] ELSE dev
    /\ ret' = [NoRes EXCEPT !.t = t, !.op = "primitive", !.ok = ok]
    /\ UNCHANGED <<tab, nextId, hpath, lockType, buff, lockW, lockR, pc, held,
                   loc, hist>>
    /\ UNCHANGED tmutex

\* line 283: collect has an empty body
CollectSweeps(t) ==
    /\ Idle(t) /\ nops < MaxOps
    /\ nops' = nops + 1
    /\ tab' = [p \in Paths |-> Upgrade(tab[p])]
    /\ ret' = [NoRes EXCEPT !.t = t, !.op = "collect"]
    /\ UNCHANGED <<nextId, hpath, lockType, buff, lockW, lockR, dev, pc, held,
                   loc, hist>>
    /\ UNCHANGED tmutex
Collect(t) ==
    /\ Idle(t) /\ nops < MaxOps
    /\ nops' = nops + 1
    /\ ret' = [NoRes EXCEPT !.t = t, !.op = "collect"]
    /\ UNCHANGED <<tab, nextId, hpath, lockType, buff, lockW, lockR, dev, pc,
                   held, loc, hist>>
    /\ UNCHANGED tmutex

\* the caller drops its SafeFile (Arc strong count goes down by one)
Drop(t) ==
    /\ Idle(t) /\ held[t] # None
    /\ held' = [held EXCEPT ![t] = None]
    /\ UNCHANGED <<tab, nextId, hpath, lockType, buff, lockW, lockR, dev, pc,
                   loc, ret, nops, hist>>
    /\ UNCHANGED tmutex

Next ==
    \E t \in Tasks :
        \/ \E p \in Paths, m \in Modes : OpenLookup(t, p, m)
        \/ OpenDeviceOk(t)
        \/ OpenDeviceFail(t)
        \/ OpenRegister(t)
        \/ Drop(t)
        \/ \E f \in Primitives, p \in Paths, ok \in BOOLEAN :
              \E m \in OptionsOf(f) : Passthrough(t, f, p, m, ok)
        \/ Collect(t)
        \/ \E pos \in Positions : ReadZero(t, pos)
        \/ \E pos \in Positions, len \in Lens : RdSnap(t, pos, len)
        \/ RdAcquire(t)
        \/ RdRelease(t)
        \/ RdDevOk(t)
        \/ RdDevFail(t)
        \/ \E pos \in Positions, len \in Lens : RwRdCall(t, pos, len)
        \/ RwRdAcquire(t)
        \/ RwRdRelease(t)
        \/ RwRdDevOk(t)
        \/ RwRdDevFail(t)
        \/ \E pos \in Positions : WriteZero(t, pos)
        \/ \E pos \in Positions, buf \in Bufs : WrStore(t, pos, buf)
        \/ WrAcquire(t)
        \/ WrRelease(t)
        \/ WrDevOk(t)
        \/ WrDevFail(t)
        \/ \E pos \in Positions, buf \in Bufs : RwWrCall(t, pos, buf)
        \/ RwWrAcquire(t)
        \/ RwWrRelease(t)
        \/ RwWrDevOk(t)
        \/ RwWrDevFail(t)

Spec == Init /\ [][Next]_vars

\* ---- scheduling ----------------------------------------------------------
\* the steps that carry a started call on: the device answers every call
\* (Ok or Err), a lock that is free is handed to a task awaiting it, and the
\* runtime runs a task that can go on
Continue(t) ==
    \/ OpenDeviceOk(t) \/ OpenDeviceFail(t) \/ OpenRegister(t)
    \/ RdAcquire(t) \/ RdRelease(t) \/ RdDevOk(t) \/ RdDevFail(t)
    \/ RwRdAcquire(t) \/ RwRdRelease(t) \/ RwRdDevOk(t) \/ RwRdDevFail(t)
    \/ WrAcquire(t) \/ WrRelease(t) \/ WrDevOk(t) \/ WrDevFail(t)
    \/ RwWrAcquire(t) \/ RwWrRelease(t) \/ RwWrDevOk(t) \/ RwWrDevFail(t)

SpecLive == Init /\ [][Next]_vars /\ \A t \in Tasks : WF_vars(Continue(t))

\* ---- writers of one shared handle -----------------------------------------
\* SafeFile derives Clone (line 52): task 1 has opened path 1 in TruncateWrite
\* mode (one operation) and handed a clone of the SafeFile to task 2
InitFence ==
    /\ tab = [p \in Paths |-> 1]
    /\ nextId = 2
    /\ hpath = [h \in Handles |-> IF h = 1 THEN 1 ELSE None]
    /\ lockType = [h \in Handles |->
                     IF h = 1 THEN LockOf("TruncateWrite") ELSE "none"]
    /\ buff = [h \in Handles |-> [data |-> <<>>, ver |-> 0, guard |-> None]]
    /\ lockW = [h \in Handles |-> None]
    /\ lockR = [h \in Handles |-> {}]
    /\ dev = [p \in Paths |-> DevOpen(<<>>, "TruncateWrite")]
    /\ pc = [t \in Tasks |-> "idle"]
    /\ held = [t \in Tasks |-> 1]
    /\ loc = [t \in Tasks |-> NoLoc]
    /\ ret = [OpenOk(1, "TruncateWrite") EXCEPT !.t = 1]
    /\ nops = 1
    /\ tmutex = None
    /\ hist = [h \in Handles |->
                 IF h = 1 THEN [NoHist EXCEPT !.ctor = "TruncateWrite",
                                              !.reg = TRUE]
                 ELSE NoHist]

\* the tasks only write through the handle (lines 167-203)
NextFence ==
    \E t \in Tasks :
        \/ \E pos \in Positions, buf \in Bufs : WrStore(t, pos, buf)
        \/ WrAcquire(t)
        \/ WrRelease(t)
        \/ WrDevOk(t)
        \/ WrDevFail(t)

SpecFence == InitFence /\ [][NextFence]_vars
\* ---- properties ---------------------------------------------------------
AllIdle == \A t \in Tasks : Idle(t)
\* the byte range [pos, pos+len) of a payload, clipped to its bounds
Clip(data, pos, len) == SubSeq(data, pos + 1, Min(pos + len, Len(data)))
Constructed == 1..(nextId - 1)
Dead(h) == h # None /\ Strong(h) = {}

\* C1: registry identity.  Two SafeFile values for the same path that callers
\* own at the same time are the same handle, and a table entry that still
\* upgrades is never overwritten (the newly constructed duplicate is dropped).
C1_RegistryIdentity ==
    /\ [](\A t1, t2 \in Tasks :
            (held[t1] # None /\ held[t2] # None
               /\ hpath[held[t1]] = hpath[held[t2]]) => held[t1] = held[t2])
    /\ [][\A p \in Paths : Upgrade(tab[p]) # None => tab'[p] = tab[p]]_vars
\* both callers own handle 1 after a race in which handle 2 was constructed
\* by the loser and dropped
C1_Witness ==
    /\ AllIdle /\ nextId = 3
    /\ \A t \in Tasks : held[t] = 1
    /\ tab[hpath[1]] = 1 /\ ~hist[2].reg /\ hpath[2] = hpath[1]

\* C2: no accepted write is lost on a LockType::Lock handle.  When every
\* operation has returned and no device write failed, what the device last
\* wrote for the handle is the data of the last accepted write.
C2_NoLostWrite ==
    \A h \in Constructed :
        (lockType[h] = "Lock" /\ hist[h].acc > 0 /\ AllIdle /\ ~hist[h].wfail)
            => hist[h].devlast = hist[h].last

\* C3: coalescing of two writers.  W1 and W2 are the only operations on the
\* handle, W2's data was buffered after W1's and before either call returned,
\* no device write failed and both have returned: the device last wrote W2's
\* data, in at most two device writes.
C3_Coalescing ==
    \A h \in Constructed :
        (lockType[h] = "Lock" /\ hist[h].acc = 2 /\ hist[h].coal
           /\ hist[h].wdone = 2 /\ ~hist[h].wfail /\ ~hist[h].reads)
            => (hist[h].devlast = hist[h].last /\ hist[h].devw <= 2)

\* C4: write exclusion on a LockType::Rw handle.  While a write is inside its
\* device write, no other read or write of the handle is inside a device call.
C4_WriteExclusion ==
    \A t, u \in Tasks :
        (t # u /\ held[t] # None /\ held[t] = held[u] /\ pc[t] = "rwwr_dev")
            => pc[u] \notin {"rwrd_dev", "rwwr_dev"}

\* C5: read after write on a LockType::Lock handle.  A read of len > 0 that
\* starts after a successful write (nothing else running on the handle, no
\* write in between) and is answered from the buffer returns the bytes
\* [pos, pos+len) of the written data, clipped to its length.
C5_ReadAfterWrite ==
    [][\A t \in Tasks :
         (pc[t] = "rd_held" /\ pc'[t] = "idle" /\ loc[t].afterw
            /\ hist[held[t]].last = loc[t].data /\ Writing(held[t]) = {})
           => (ret'.ok /\ ret'.val = Clip(loc[t].data, loc[t].pos, loc[t].len))
      ]_vars

\* C6: a stale entry is replaced.  With the entry for p dead (every strong
\* holder of the registered handle dropped), a lookup never hands out that
\* handle, and the open that reaches the second lookup stores the Weak of the
\* handle it constructed and returns that handle.
C6_StaleReplaced ==
    [][\A t \in Tasks, p \in Paths :
         Dead(tab[p]) =>
           /\ (Idle(t) /\ held[t] = None /\ held'[t] # None)
                 => held'[t] # tab[p]
           /\ (pc[t] = "open_reg" /\ loc[t].path = p /\ pc'[t] = "idle")
                 => /\ loc[t].file \notin {None, tab[p]}
                    /\ tab'[p] = loc[t].file
                    /\ held'[t] = loc[t].file
                    /\ ret' = [OpenOk(loc[t].file, loc[t].mode) EXCEPT !.t = t]
      ]_vars
\* a handle that was registered for p is dead, and the last open returned
\* the new handle now registered for p
C6_Witness ==
    \E p \in Paths, h1, h2 \in Constructed :
        /\ h1 # h2 /\ hpath[h1] = p /\ hist[h1].reg /\ Dead(h1)
        /\ tab[p] = h2 /\ ret.op = "open" /\ ret.ok /\ ret.h = h2
        /\ ret.t # None /\ held[ret.t] = h2

\* C7: a failed open leaves the table alone.  The steps of an open whose
\* device open fails change no table entry, construct no handle and return
\* the error.
C7_FailedOpenFrame ==
    [][\A t \in Tasks :
         /\ (Idle(t) /\ pc'[t] = "open_dev") => (tab' = tab /\ nextId' = nextId)
         /\ (pc[t] = "open_dev" /\ pc'[t] = "idle")
               => /\ ret' = [OpenErr EXCEPT !.t = t]
                  /\ tab' = tab /\ nextId' = nextId /\ hist' = hist
                  /\ held'[t] = None
      ]_vars
\* an open has just failed while the table holds an entry
C7_Witness ==
    /\ ret.op = "open" /\ ~ret.ok
    /\ \E p \in Paths : tab[p] # None

\* C8: a failed device write keeps the buffer dirty.  The step in which the
\* device write of a LockType::Lock write fails returns the error, leaves
\* payload, version and device as they are and starts no further device
\* write; when no other write call overlapped this one, the version is not 0.
C8_FailedWriteDirty ==
    [][\A t \in Tasks :
         (pc[t] = "wr_dev" /\ pc'[t] # "wr_dev" /\ ~ret'.ok) =>
           /\ ret' = [WriteErr EXCEPT !.t = t]
           /\ pc'[t] = "idle"
           /\ buff' = buff /\ dev' = dev
           /\ hist'[held[t]].devw = hist[held[t]].devw
           /\ loc[t].alone => buff'[held[t]].ver # 0
      ]_vars
\* a write has just returned the device's error and the version is not 0
C8_Witness ==
    /\ ret.op = "write" /\ ~ret.ok /\ ret.t # None /\ held[ret.t] # None
    /\ lockType[held[ret.t]] = "Lock"
    /\ buff[held[ret.t]].ver # 0
    /\ Writing(held[ret.t]) = {}

\* C9: zero-length operations are no-ops under both lock types.  No read or
\* write past its entry check has length 0 (so none waits for a lock or is in
\* a device call), and the step of a call that returns at the entry check
\* returns Ok (empty bytes, or count 0) and changes neither buffer, lock
\* nor device.
C9_ZeroLengthNoOp ==
    /\ [](\A t \in Tasks :
            pc[t] \in {"rd_wait", "rd_held", "rd_dev",
                       "rwrd_wait", "rwrd_held", "rwrd_dev",
                       "wr_wait", "wr_held", "wr_dev",
                       "rwwr_wait", "rwwr_held", "rwwr_dev"}
              => loc[t].len > 0)
    /\ [][(nops' = nops + 1 /\ pc' = pc /\ held' = held
               /\ ret'.op \in {"read", "write"})
              => /\ \E t \in Tasks :
                      /\ Idle(t) /\ held[t] # None
                      /\ ret' \in {[ReadOk(<<>>) EXCEPT !.t = t],
                                   [WriteOk(0) EXCEPT !.t = t]}
                 /\ UNCHANGED <<buff, lockW, lockR, dev, loc, hist, tab>>
         ]_vars
\* the last return is the Ok(0) of a zero-length write, on a handle whose
\* buffer an earlier failed write left dirty
C9_Witness ==
    /\ AllIdle
    /\ ret.op = "write" /\ ret.ok /\ ret.n = 0
    /\ ret.t # None /\ held[ret.t] # None
    /\ hist[held[ret.t]].wfail /\ buff[held[ret.t]].ver > 0

\* C10: the lock strategy is fixed at construction.  Every constructed handle
\* has LockType::Lock exactly when the open that constructed it asked for
\* TruncateWrite, and no step changes the lock type of a constructed handle.
C10_LockStrategyFixed ==
    /\ [](\A h \in Constructed :
            lockType[h] = IF hist[h].ctor = "TruncateWrite" THEN "Lock" ELSE "Rw")
    /\ [][\A h \in Constructed : lockType'[h] = lockType[h]]_vars
\* handles of both lock types exist and a write has run
C10_Witness ==
    /\ \E h1, h2 \in Constructed : lockType[h1] = "Lock" /\ lockType[h2] = "Rw"
    /\ ret.op = "write" /\ ret.ok /\ ret.n > 0

C12_SingleWriter ==
    \A h \in Constructed :
        lockType[h] = "Lock" =>
            /\ Cardinality(InDevice(h)) <= 1
            /\ \A t \in Tasks :
                  (held[t] = h /\ pc[t] = "wr_dev") => lockW[h] = t

\* C13: skip on version 0 is sound.  When a write on a LockType::Lock handle
\* copies version 0 after the lock and returns Ok without a device write, a
\* device write carrying its own payload, or the payload of a write accepted
\* after it, has completed with success since the call stored its payload.
C13_SkipSound ==
    [][\A t \in Tasks :
         (pc[t] = "wr_held" /\ pc'[t] = "idle")
            => loc[t].seen \cap loc[t].done # {}
      ]_vars

\* C14: version fence.  The version of a buffer changes only by +1 when a
\* write stores its payload, or to 0 by a writer whose device write succeeded
\* and whose copied version equals the current one; and that writer resets
\* only when every payload accepted after its copy has been written to the
\* device with success.
C14_VersionFence ==
    [][\A h \in Handles :
         buff'[h].ver # buff[h].ver
            => \/ /\ buff'[h].ver = buff[h].ver + 1
                  /\ \E t \in Tasks : held[t] = h /\ Idle(t) /\ pc'[t] = "wr_wait"
               \/ /\ buff'[h].ver = 0
                  /\ \E t \in Tasks :
                        /\ held[t] = h /\ pc[t] = "wr_dev" /\ pc'[t] = "idle"
                        /\ ret'.ok
                        /\ loc[t].ver = buff[h].ver
                        /\ loc[t].seen \subseteq loc[t].done
      ]_vars

\* C15: a pending payload is never replaced by a read.  While the version of
\* a buffer is above 0 its payload is the data of the write accepted last, and
\* a read on a LockType::Lock handle stores what the device returned only
\* while the version is 0.
C15_PendingPayload ==
    /\ [](\A h \in Constructed :
             buff[h].ver > 0 => buff[h].data = hist[h].last)
    /\ [][\A t \in Tasks :
             (pc[t] = "rd_dev" /\ buff'[held[t]].data # buff[held[t]].data)
                => buff[held[t]].ver = 0
          ]_vars

\* C16: read ordering on a LockType::Lock handle.  A read of len > 0 looks at
\* the buffer only after it has the handle lock: the payload it decides on is
\* the buffer's payload at the moment it gets the lock, and a read that gets
\* the lock while the buffer holds the non-empty payload of a write issues no
\* device read.
C16_ReadAfterLock ==
    [][\A t \in Tasks :
         /\ (pc[t] = "rd_wait" /\ pc'[t] = "rd_held")
               => loc'[t].data = buff[held[t]].data
         /\ (pc[t] = "rd_held" /\ pc'[t] = "rd_dev") => ~loc[t].atlock
      ]_vars

\* C17: a write on a LockType::Lock handle ignores its offset.  The device
\* write it issues has offset 0 whatever pos the caller gave, and a successful
\* one leaves the file as a write of the copied payload at offset 0 does.
C17_OffsetIgnored ==
    /\ [](\A t \in Tasks : pc[t] = "wr_dev" => DevWriteCall(t).pos = 0)
    /\ [][\A t \in Tasks :
             (pc[t] = "wr_dev" /\ pc'[t] = "idle" /\ ret'.ok)
                => dev'[hpath[held[t]]] =
                     DevWrite(dev[hpath[held[t]]], 0, DevWriteCall(t).data)
          ]_vars

\* C18: the buffer's guard is never held across a device call or an await.
\* No task that is inside a device open, read or write, or waiting for the
\* handle lock or the table mutex, holds the SpinLock of a buffer.
C18_GuardShort ==
    \A h \in Handles, t \in Tasks :
        buff[h].guard = t
            => pc[t] \notin {"open_dev", "open_reg", "rd_wait", "rd_dev",
                             "wr_wait", "wr_dev", "rwrd_wait", "rwrd_dev",
                             "rwwr_wait", "rwwr_dev"}
\* a writer inside its device write while a reader of the same handle waits
\* for the handle lock, both after they took the buffer's guard
C18_Witness ==
    \E t, u \in Tasks :
        /\ held[t] # None /\ held[t] = held[u]
        /\ pc[t] = "wr_dev" /\ pc[u] = "rd_wait"
        /\ buff[held[t]].guard = None

\* C19: progress.  With every device call answered and fair scheduling, every
\* open, read and write that was started returns; no task holds the table's
\* mutex while it is inside the device open, and nothing is left waiting for
\* the table mutex, a handle lock or a buffer guard forever.
C19_Progress ==
    /\ [](\A t \in Tasks : tmutex = t => pc[t] # "open_dev")
    /\ \A t \in Tasks : (pc[t] # "idle") ~> (pc[t] = "idle")
\* a write waits for the handle lock that another task holds, while the
\* table's mutex is free
C19_Witness ==
    \E t, u \in Tasks :
        /\ t # u /\ held[t] # None /\ held[t] = held[u]
        /\ pc[t] \in {"wr_wait", "rwwr_wait"}
        /\ lockW[held[t]] = u
        /\ tmutex = None

\* C20: a cache hit ignores the requested mode.  While the table holds a live
\* handle for p, the first lookup of open(p, mode) returns that handle for
\* every mode and never goes on to the device open; the hit opens nothing on
\* the device, constructs no handle and leaves the handle's lock strategy the
\* one of the mode it was constructed with.
C20_HitIgnoresMode ==
    [][\A t \in Tasks :
         (Idle(t) /\ held[t] = None /\ nops' = nops + 1)
            => /\ pc'[t] = "open_dev" => Upgrade(tab[loc'[t].path]) = None
               /\ held'[t] # None
                     => /\ held'[t] = Upgrade(tab[hpath[held'[t]]])
                        /\ ret' = [OpenOk(held'[t], ret'.mode) EXCEPT !.t = t]
                        /\ UNCHANGED <<tab, nextId, lockType, dev, pc>>
                        /\ lockType[held'[t]] = LockOf(hist[held'[t]].ctor)
      ]_vars
\* open(p, TruncateWrite) has returned, from the first lookup (one handle was
\* ever constructed), a handle whose lock is the RwLock
C20_Witness ==
    /\ ret.op = "open" /\ ret.ok /\ ret.mode = "TruncateWrite"
    /\ nextId = 2
    /\ ret.h # None /\ lockType[ret.h] = "Rw"
    /\ held[ret.t] = ret.h
====
